---- MODULE Spec2Model ----
(***************************************************************************)
(* A model of the cstex provenance scripts:                                *)
(*   scripts/process-metadata.py  (class MetadataProcessor)                *)
(*   scripts/extract-values.py    (class ValueExtractor)                   *)
(*                                                                         *)
(* Text is modelled as a sequence of one-character strings, so that the    *)
(* character-level operations of the code (str.replace, re.match,          *)
(* str.split, the "in" substring test) are computed and not assumed.       *)
(***************************************************************************)
EXTENDS Integers, Sequences, FiniteSets, TLC

VARIABLES
    manifestFile,    \* the configuration file: [exists, pipeline]
    logFile,         \* .csf/provenance.log: [exists, lines]
    texFile,         \* the LaTeX document: [exists, content]
    valuesFile,      \* .csf/values.tex: [exists, content]
    pc,              \* position of the MetadataProcessor run
    config,          \* MetadataProcessor.config["pipeline"]
    pipeline_steps,  \* MetadataProcessor.pipeline_steps (insertion-ordered dict)
    artifacts,       \* result of discover_artifacts_in_latex
    xpc,             \* position of the ValueExtractor run
    xconfig,         \* ValueExtractor.config["pipeline"]
    values,          \* ValueExtractor.values (insertion-ordered dict)
    mpc,             \* position of a single matcher call
    candidate,       \* the candidate name handed to the matchers
    found,           \* result of _find_metadata_for_artifact(candidate)
    matched,         \* result of _match_artifact_to_step(candidate)
    scriptFiles,     \* the script paths that exist under the project root
    invocation,      \* the invocations of extract-values.py on one project:
                     \* of each its position, config, values and values_content
    csfDir,          \* .csf/config.tex and .csf/metadata.json: of each [exists, content]
    enhancedFile,    \* <document>_enhanced.tex: [exists, content]
    before           \* the output files and the stored values as the runs found them

vars == <<manifestFile, logFile, texFile, valuesFile, pc, config, pipeline_steps,
          artifacts, xpc, xconfig, values, mpc, candidate, found, matched,
          scriptFiles, invocation, csfDir, enhancedFile, before>>

-----------------------------------------------------------------------------
(* Bounds of the model *)

MaxSteps == 2
MaxLog == 3
MaxPat == 3
MaxName == 3

-----------------------------------------------------------------------------
(* Text helpers *)

\* the text "x" as a sequence of characters is written <<"x">>
SeqsUpTo(S, n) == UNION {[1..k -> S] : k \in 0..n}

\* str.replace(c, r) for a one-character c
RECURSIVE Replace(_, _, _)
Replace(s, c, r) ==
    IF s = <<>> THEN <<>>
    ELSE (IF Head(s) = c THEN r ELSE <<Head(s)>>) \o Replace(Tail(s), c, r)

StartsWithAt(s, i, lit) ==
    /\ i + Len(lit) - 1 <= Len(s)
    /\ SubSeq(s, i, i + Len(lit) - 1) = lit

\* the Python test "sub in s" on strings
Contains(s, sub) == \E i \in 1..(Len(s) + 1) : StartsWithAt(s, i, sub)

EndsWith(s, suffix) ==
    /\ Len(suffix) <= Len(s)
    /\ SubSeq(s, Len(s) - Len(suffix) + 1, Len(s)) = suffix

\* str.split(): the maximal runs of non-blank characters
RECURSIVE SplitFrom(_, _, _)
SplitFrom(s, i, cur) ==
    IF i > Len(s) THEN (IF cur = <<>> THEN <<>> ELSE <<cur>>)
    ELSE IF s[i] = " "
         THEN (IF cur = <<>> THEN <<>> ELSE <<cur>>) \o SplitFrom(s, i + 1, <<>>)
         ELSE SplitFrom(s, i + 1, Append(cur, s[i]))

Split(s) == SplitFrom(s, 1, <<>>)

-----------------------------------------------------------------------------
(* Regular expressions as the code builds them *)

\* output_pattern.replace("*", ".*").replace("?", ".")
GlobToRegex(output_pattern) ==
    Replace(Replace(output_pattern, "*", <<".", "*">>), "?", <<".">>)

\* one regex atom against one character: "." is any character but a newline
AtomMatches(a, c) == IF a = "." THEN c # "\n" ELSE a = c

\* re.match(regex, s): the regex matches some prefix of s (no end anchor).
\* The regexes built here are atoms, each optionally followed by "*".
RECURSIVE ReMatch(_, _)
ReMatch(regex, s) ==
    IF regex = <<>> THEN TRUE
    ELSE IF Len(regex) >= 2 /\ regex[2] = "*"
         THEN \/ ReMatch(Tail(Tail(regex)), s)
              \/ /\ s # <<>>
                 /\ AtomMatches(regex[1], Head(s))
                 /\ ReMatch(regex, Tail(s))
         ELSE /\ s # <<>>
              /\ AtomMatches(regex[1], Head(s))
              /\ ReMatch(Tail(regex), Tail(s))

PatternMatches(output_pattern, name) == ReMatch(GlobToRegex(output_pattern), name)

-----------------------------------------------------------------------------
(* The manifest and MetadataProcessor.__init__ / _load_config *)

\* Python's None where a text is expected (no text is one "character" long
\* and spelled like this)
None == <<"<None>">>

\* A step object of the manifest: the keys it has, and their values.
StepObject(keys, name, cmd, inputs, outputs) ==
    [keys |-> keys, name |-> name, cmd |-> cmd, inputs |-> inputs, outputs |-> outputs]

\* step.get(key, default)
Get(step, key, default) ==
    IF key \in step.keys
    THEN CASE key = "name" -> step.name
           [] key = "cmd" -> step.cmd
           [] key = "inputs" -> step.inputs
           [] key = "outputs" -> step.outputs
    ELSE default

\* PipelineStep(name=step_config["name"], cmd=step_config["cmd"],
\*              inputs=step_config.get("inputs", []), outputs=step_config.get("outputs", []))
PipelineStep(step_config) ==
    [name |-> step_config.name, cmd |-> step_config.cmd,
     inputs |-> Get(step_config, "inputs", <<>>),
     outputs |-> Get(step_config, "outputs", <<>>)]

\* d[step.name] = step on an insertion-ordered dict: an existing key keeps its
\* position and takes the new value, a new key goes last
DictSet(d, step) ==
    IF \E i \in 1..Len(d) : d[i].name = step.name
    THEN [i \in 1..Len(d) |-> IF d[i].name = step.name THEN step ELSE d[i]]
    ELSE Append(d, step)

\* the loop of _load_config over config["pipeline"]: a step_config without
\* "name" or "cmd" raises KeyError
RECURSIVE ParsePipelineSteps(_, _, _)
ParsePipelineSteps(pipeline, i, d) ==
    IF i > Len(pipeline) THEN [raised |-> FALSE, steps |-> d]
    ELSE IF ~({"name", "cmd"} \subseteq pipeline[i].keys)
         THEN [raised |-> TRUE, steps |-> d]
         ELSE ParsePipelineSteps(pipeline, i + 1, DictSet(d, PipelineStep(pipeline[i])))

\* MetadataProcessor._load_config: the outcome of the constructor
LoadConfig(file) ==
    IF ~file.exists THEN [raised |-> TRUE, config |-> <<>>, steps |-> <<>>]
    ELSE LET r == ParsePipelineSteps(file.pipeline, 1, <<>>)
         IN  IF r.raised THEN [raised |-> TRUE, config |-> <<>>, steps |-> <<>>]
             ELSE [raised |-> FALSE, config |-> file.pipeline, steps |-> r.steps]

-----------------------------------------------------------------------------
(* The two matchers of MetadataProcessor *)

NoMetadata == [kind |-> "none", step |-> None, script |-> None, dependencies |-> <<>>]
Raised == [kind |-> "raise", step |-> None, script |-> None, dependencies |-> <<>>]

\* An entry of "outputs" that is a JSON object {name, line, expression, type}
\* and not a string: a first element that no character equals marks it, the
\* declared type and line follow, then the characters of the name
StructuredOutput(name, line, type) == <<"<dict>", type, line>> \o name
IsStructured(entry) == entry # <<>> /\ entry[1] = "<dict>"
EntryType(entry) == entry[2]
EntryLine(entry) == entry[3]
EntryName(entry) == SubSeq(entry, 4, Len(entry))

\* re.compile of the translated pattern: a "[" that no "]" closes is an
\* unterminated character set (re.error); the patterns of the model hold
\* no "]", and no other character that re rejects
Compiles(regex) == \A i \in 1..Len(regex) : regex[i] # "["

\* lines 187-188 for one entry of outputs: output_pattern.replace raises
\* AttributeError on an object, re.match raises re.error on a pattern that
\* does not compile
PatternOutcome(output_pattern, name) ==
    IF IsStructured(output_pattern) THEN "raise"
    ELSE IF ~Compiles(GlobToRegex(output_pattern)) THEN "raise"
         ELSE IF PatternMatches(output_pattern, name) THEN "match" ELSE "nomatch"

\* the loop over the outputs of a step, entry after entry: the first entry
\* that matches, 0 if none does, -1 if an entry raises before any matches
FirstMatchingPattern(outputs, name) ==
    LET decided == {k \in 1..Len(outputs) : PatternOutcome(outputs[k], name) # "nomatch"}
        k == CHOOSE i \in decided : \A j \in decided : i <= j
    IN  IF decided = {} THEN 0
        ELSE IF PatternOutcome(outputs[k], name) = "raise" THEN -1 ELSE k

\* a metadata whose step is the script of the command and not the step's name
StepMetadataNamesScript(step) ==
    LET words == Split(Get(step, "cmd", <<>>))
    IN  IF words = <<>> THEN Raised
        ELSE [kind |-> "meta", step |-> words[Len(words)],
              script |-> words[Len(words)],
              dependencies |-> Get(step, "inputs", <<>>)]

\* step.get("cmd", "").split()[-1]: IndexError when the command has no word
StepMetadata(step) ==
    LET words == Split(Get(step, "cmd", <<>>))
    IN  IF words = <<>> THEN Raised
        ELSE [kind |-> "meta", step |-> Get(step, "name", None),
              script |-> words[Len(words)],
              dependencies |-> Get(step, "inputs", <<>>)]

\* _find_metadata_for_artifact: the steps of config["pipeline"] in list order
RECURSIVE FindMetadataFrom(_, _, _)
FindMetadataFrom(pipeline, i, name) ==
    IF i > Len(pipeline) THEN NoMetadata
    ELSE LET k == FirstMatchingPattern(Get(pipeline[i], "outputs", <<>>), name)
         IN  IF k = -1 THEN Raised
             ELSE IF k # 0 THEN StepMetadata(pipeline[i])
                  ELSE FindMetadataFrom(pipeline, i + 1, name)

FindMetadataForArtifact(cfg, name) == FindMetadataFrom(cfg, 1, name)

\* _find_generating_script: a word of the command that ends in .py and exists,
\* else an input that ends in .py, else None
DotPy == <<".", "p", "y">>

FindGeneratingScript(step, files) ==
    LET words == Split(step.cmd)
        isScript(k) == EndsWith(words[k], DotPy) /\ words[k] \in files
        isPy(k) == EndsWith(step.inputs[k], DotPy)
    IN  IF \E k \in 1..Len(words) : isScript(k)
        THEN words[CHOOSE k \in 1..Len(words) :
                      isScript(k) /\ \A j \in 1..(k - 1) : ~isScript(j)]
        ELSE IF \E k \in 1..Len(step.inputs) : isPy(k)
             THEN step.inputs[CHOOSE k \in 1..Len(step.inputs) :
                                 isPy(k) /\ \A j \in 1..(k - 1) : ~isPy(j)]
             ELSE None

\* _match_artifact_to_step: the items of pipeline_steps in dict order
RECURSIVE MatchArtifactFrom(_, _, _, _)
MatchArtifactFrom(steps, i, artifact_path, files) ==
    IF i > Len(steps) THEN NoMetadata
    ELSE LET k == FirstMatchingPattern(steps[i].outputs, artifact_path)
         IN  IF k = -1 THEN Raised
             ELSE IF k # 0
                  THEN [kind |-> "meta", step |-> steps[i].name,
                        script |-> FindGeneratingScript(steps[i], files),
                        dependencies |-> steps[i].inputs]
                  ELSE MatchArtifactFrom(steps, i + 1, artifact_path, files)

MatchArtifactToStep(steps, artifact_path, files) ==
    MatchArtifactFrom(steps, 1, artifact_path, files)

-----------------------------------------------------------------------------
(* The document and discover_artifacts_in_latex *)

ValueLinkOpen == <<"\\", "c", "s", "f", "v", "a", "l", "u", "e", "l", "i", "n", "k", "{">>
LinkOpen == <<"\\", "c", "s", "f", "l", "i", "n", "k", "{">>

\* the first position from j on that holds "}", Len(content) + 1 if none does
RECURSIVE NameEnd(_, _)
NameEnd(content, j) ==
    IF j > Len(content) \/ content[j] = "}" THEN j ELSE NameEnd(content, j + 1)

\* the regex  <open>([^}]+)\}  tried at position i (1-based)
MatchesAt(content, i, open) ==
    /\ StartsWithAt(content, i, open)
    /\ LET j == i + Len(open)
           k == NameEnd(content, j)
       IN  k > j /\ k <= Len(content)

\* match.start(), match.end() (0-based offsets) and match.group(1)
MatchAt(content, i, open) ==
    LET j == i + Len(open)
        k == NameEnd(content, j)
    IN  [match_start |-> i - 1, match_end |-> k, name |-> SubSeq(content, j, k - 1)]

\* re.finditer: the non-overlapping matches, left to right
RECURSIVE FindIter(_, _, _)
FindIter(content, i, open) ==
    IF i > Len(content) THEN <<>>
    ELSE IF MatchesAt(content, i, open)
         THEN <<MatchAt(content, i, open)>>
              \o FindIter(content, MatchAt(content, i, open).match_end + 1, open)
         ELSE FindIter(content, i + 1, open)

\* the inner loop of discover_artifacts_in_latex for one marker form: a
\* marker with metadata is appended, one without is only warned about
RECURSIVE DiscoverMatches(_, _, _, _, _)
DiscoverMatches(cfg, artifact_type, ms, i, acc) ==
    IF i > Len(ms) THEN [raised |-> FALSE, artifacts |-> acc]
    ELSE LET metadata == FindMetadataForArtifact(cfg, ms[i].name)
         IN  IF metadata.kind = "raise" THEN [raised |-> TRUE, artifacts |-> acc]
             ELSE IF metadata.kind = "meta"
                  THEN DiscoverMatches(cfg, artifact_type, ms, i + 1,
                           Append(acc, [type |-> artifact_type, name |-> ms[i].name,
                                        match_start |-> ms[i].match_start,
                                        match_end |-> ms[i].match_end,
                                        metadata |-> metadata]))
                  ELSE DiscoverMatches(cfg, artifact_type, ms, i + 1, acc)

\* discover_artifacts_in_latex: all 'value' markers, then all 'artifact' markers
DiscoverArtifactsInLatex(cfg, file) ==
    IF ~file.exists THEN [raised |-> TRUE, artifacts |-> <<>>]
    ELSE LET vs == DiscoverMatches(cfg, "value", FindIter(file.content, 1, ValueLinkOpen),
                                   1, <<>>)
         IN  IF vs.raised THEN [raised |-> TRUE, artifacts |-> <<>>]
             ELSE LET as == DiscoverMatches(cfg, "artifact",
                                            FindIter(file.content, 1, LinkOpen),
                                            1, vs.artifacts)
                  IN  IF as.raised THEN [raised |-> TRUE, artifacts |-> <<>>] ELSE as

\* info.get('line', 'unknown') never finds a line: the metadata built by
\* _find_metadata_for_artifact has no 'line' key (0 stands for no line)
InfoLine(info) == 0

-----------------------------------------------------------------------------
(* enhance_latex_document and create_csf_directory *)

\* the characters of a text as one string, and str() of None
RECURSIVE Join(_)
Join(chars) == IF chars = <<>> THEN "" ELSE Head(chars) \o Join(Tail(chars))
Format(x) == IF x = None THEN "None" ELSE Join(x)

\* metadata_comment: one string, inserted as one element of the list
MetadataComment(artifact) ==
    "% CSF-AUTO-METADATA: type=" \o artifact.type
        \o ", name=" \o Format(artifact.name)
        \o ", step=" \o Format(artifact.metadata.step)
        \o ", script=" \o Format(artifact.metadata.script)
        \o ", line=" \o (IF InfoLine(artifact.metadata) = 0 THEN "unknown"
                          ELSE ToString(InfoLine(artifact.metadata)))
        \o "\n"

\* list.insert(index, x): before the element at the 0-based index, at the
\* end when the index is past the end
ListInsert(list, index, x) ==
    IF index >= Len(list) THEN Append(list, x)
    ELSE SubSeq(list, 1, index) \o <<x>> \o SubSeq(list, index + 1, Len(list))

\* for artifact in reversed(artifacts): enhanced_content.insert(start_index, ...)
RECURSIVE InsertComments(_, _, _)
InsertComments(enhanced_content, found_artifacts, i) ==
    IF i = 0 THEN enhanced_content
    ELSE InsertComments(ListInsert(enhanced_content, found_artifacts[i].match_start,
                                   MetadataComment(found_artifacts[i])),
                        found_artifacts, i - 1)

UsePackage ==
    <<"\\", "u", "s", "e", "p", "a", "c", "k", "a", "g", "e", "{",
      "c", "o", "m", "p", "o", "s", "a", "b", "l", "e", "}">>
DocumentClassOpen ==
    <<"\\", "d", "o", "c", "u", "m", "e", "n", "t", "c", "l", "a", "s", "s", "{">>

\* re.sub(r'(\\documentclass\{[^}]+\})', r'\1\n\\usepackage{composable}', ..., count=1)
\* when the text does not hold \usepackage{composable}. The text is the
\* joined list with each comment as one element, so a comment counts as one
\* character that is no brace
AddUsePackage(text) ==
    LET ms == FindIter(text, 1, DocumentClassOpen)
    IN  IF Contains(text, UsePackage) \/ ms = <<>> THEN text
        ELSE SubSeq(text, 1, ms[1].match_end) \o <<"\n">> \o UsePackage
                 \o SubSeq(text, ms[1].match_end + 1, Len(text))

\* enhance_latex_document: the text written to the output file
EnhanceLatexDocument(cfg, file) ==
    LET r == DiscoverArtifactsInLatex(cfg, file)
    IN  IF r.raised THEN [raised |-> TRUE, content |-> <<>>]
        ELSE [raised |-> FALSE,
              content |-> AddUsePackage(InsertComments(file.content, r.artifacts,
                                                       Len(r.artifacts)))]

\* the two files of create_csf_directory; the package and build sections of
\* the manifest and the git commit are outside the model
ConfigTex == [exists |-> TRUE, content |-> <<"config">>]
MetadataJson(steps) == [exists |-> TRUE, content |-> steps]

-----------------------------------------------------------------------------
(* ValueExtractor: the log, its reduction and the injection table *)

Unknown == <<"u", "n", "k", "n", "o", "w", "n">>

\* A line of the log: whether json.loads accepts it, and the record it holds
LogLine(parses, keys, type, name, value, filepath, lineno) ==
    [parses |-> parses, keys |-> keys, type |-> type, name |-> name, value |-> value,
     filepath |-> filepath, lineno |-> lineno]

\* ValueExtractor._load_config: json.load of the file, nothing is validated
XLoadConfig(file) ==
    IF ~file.exists THEN [raised |-> TRUE, config |-> <<>>]
    ELSE [raised |-> FALSE, config |-> file.pipeline]

\* a reader that fails when there is no log
ReadProvenanceLogNeedsFile(file) ==
    IF ~file.exists \/ \E i \in 1..Len(file.lines) : ~file.lines[i].parses
    THEN [raised |-> TRUE, entries |-> <<>>]
    ELSE [raised |-> FALSE, entries |-> file.lines]

\* a reader that drops the lines that do not parse
ReadProvenanceLogSkipping(file) ==
    LET parsed(line) == line.parses
    IN  IF ~file.exists THEN [raised |-> FALSE, entries |-> <<>>]
        ELSE [raised |-> FALSE, entries |-> SelectSeq(file.lines, parsed)]

\* read_provenance_log: no file is an empty list; json.loads of any line
\* that does not parse raises
ReadProvenanceLog(file) ==
    IF ~file.exists THEN [raised |-> FALSE, entries |-> <<>>]
    ELSE IF \E i \in 1..Len(file.lines) : ~file.lines[i].parses
         THEN [raised |-> TRUE, entries |-> <<>>]
         ELSE [raised |-> FALSE, entries |-> file.lines]

\* _find_step_for_script: the first step whose command contains the path
RECURSIVE FindStepFrom(_, _, _)
FindStepFrom(pipeline, i, script_path) ==
    IF i > Len(pipeline) THEN None
    ELSE IF Contains(Get(pipeline[i], "cmd", <<>>), script_path)
         THEN Get(pipeline[i], "name", None)
         ELSE FindStepFrom(pipeline, i + 1, script_path)

FindStepForScript(cfg, script_path) == FindStepFrom(cfg, 1, script_path)

\* str(value)
PyStr(value) == value.repr

\* a reduction in which the first record of a name is kept
ValuesSetKeepFirst(d, v) ==
    IF \E i \in 1..Len(d) : d[i].name = v.name THEN d ELSE Append(d, v)

\* a reduction in which a rewritten name moves to the end of the mapping
ValuesSetMoveToEnd(d, v) ==
    LET differs(x) == x.name # v.name IN Append(SelectSeq(d, differs), v)

\* values[name] = ExtractedValue(...) on an insertion-ordered dict: a name
\* already present keeps its position and takes the new value
ValuesSet(d, v) ==
    IF \E i \in 1..Len(d) : d[i].name = v.name
    THEN [i \in 1..Len(d) |-> IF d[i].name = v.name THEN v ELSE d[i]]
    ELSE Append(d, v)

\* ExtractedValue(name=..., value=..., formatted_value=str(value),
\*                step=step or "unknown", script=..., line=...); value_type
\* is not passed and takes the dataclass default
ExtractedValue(cfg, entry) ==
    LET step == FindStepForScript(cfg, entry.filepath)
    IN  [name |-> entry.name, value |-> entry.value,
         formatted_value |-> PyStr(entry.value),
         step |-> IF step = None \/ step = <<>> THEN Unknown ELSE step,
         script |-> entry.filepath, value_type |-> "unknown", line |-> entry.lineno]

\* the loop of extract_values_from_log: records of another type are skipped,
\* a value record without one of its keys raises KeyError
RECURSIVE ReduceEntries(_, _, _, _)
ReduceEntries(cfg, entries, i, acc) ==
    IF i > Len(entries) THEN [raised |-> FALSE, values |-> acc]
    ELSE IF ~("type" \in entries[i].keys /\ entries[i].type = "value")
         THEN ReduceEntries(cfg, entries, i + 1, acc)
         ELSE IF ~({"name", "value", "filepath", "lineno"} \subseteq entries[i].keys)
              THEN [raised |-> TRUE, values |-> acc]
              ELSE ReduceEntries(cfg, entries, i + 1,
                                 ValuesSet(acc, ExtractedValue(cfg, entries[i])))

\* a reduction that writes into self.values as it goes
StoreValuesAsReduced(stored, r) == r.values

\* self.values = values at the end of extract_values_from_log: an exception
\* in the read or in the loop leaves the stored mapping as it was
StoreValues(stored, r) == IF r.raised THEN stored ELSE r.values

\* extract_values_from_log
ExtractValuesFromLog(cfg, file) ==
    LET log_entries == ReadProvenanceLog(file)
    IN  IF log_entries.raised THEN [raised |-> TRUE, values |-> <<>>]
        ELSE ReduceEntries(cfg, log_entries.entries, 1, <<>>)

\* A text is held as the list of its lines, text.split("\n")
TextLine(text) == [kind |-> "text", text |-> text]
EmptyText == <<TextLine("")>>

\* \csfdefinevalue{name}{value}{step}{value_type}
DefineLine(name, value) ==
    [kind |-> "csfdefinevalue", name |-> name, value |-> PyStr(value.value),
     step |-> value.step, value_type |-> value.value_type]

\* generate_values_tex
GenerateValuesTex(vals) ==
    IF vals = <<>> THEN <<TextLine("% No values extracted"), TextLine("")>>
    ELSE <<TextLine("% CSF Values - Auto-generated by extract-values.py"),
           [kind |-> "generated", count |-> Len(vals)],
           TextLine("% Do not edit manually - regenerate with 'cstex-compile'"),
           TextLine("")>>
         \o [i \in 1..Len(vals) |-> DefineLine(vals[i].name, vals[i])]
         \o <<TextLine(""), TextLine("% Mark values as cached"),
              TextLine("\\csfvaluescachedtrue"), TextLine("")>>

\* two texts one after the other, as lists of lines: the last line of the
\* first continues with the first line of the second
JoinLines(a, b) ==
    IF a = TextLine("") THEN b
    ELSE IF b = TextLine("") THEN a
         ELSE IF a.kind = "text" /\ b.kind = "text" THEN TextLine(a.text \o b.text)
              ELSE [kind |-> "joined", left |-> a, right |-> b]

TextConcat(s, t) ==
    SubSeq(s, 1, Len(s) - 1) \o <<JoinLines(s[Len(s)], t[1])>> \o Tail(t)

\* an open that keeps what the file holds and writes after it
OpenAppend(file) ==
    [exists |-> TRUE, content |-> IF file.exists THEN file.content ELSE EmptyText]

\* open(values_file, 'w'): the file is created, or emptied when it exists
OpenWrite(file) ==
    [exists |-> TRUE, content |-> EmptyText]

\* f.write(values_content) on the open file, and the close at the end of
\* the with block
FileWrite(file, text) ==
    [exists |-> TRUE, content |-> TextConcat(file.content, text)]

-----------------------------------------------------------------------------
(* The inputs of the runs *)

FPy == <<"f", ".", "p", "y">>
GPy == <<"g", ".", "p", "y">>
CmdF == <<"p", " ">> \o FPy
CmdG == GPy

AllKeys == {"name", "cmd", "inputs", "outputs"}

\* well-formed steps: two names, two commands, three output lists
FullSteps ==
    {StepObject(AllKeys, n, c, IF c = CmdF THEN <<FPy>> ELSE <<>>, o) :
        n \in {<<"A">>, <<"B">>}, c \in {CmdF, CmdG},
        o \in {<<<<"*">>>>, <<<<"a">>>>, <<<<"r">>>>}}

\* steps without a required key, and a step with an empty name
OddSteps ==
    {StepObject(AllKeys \ {"name"}, <<>>, CmdG, <<>>, <<<<"*">>>>),
     StepObject(AllKeys \ {"cmd"}, <<"A">>, <<>>, <<>>, <<<<"*">>>>),
     StepObject(AllKeys, <<>>, CmdF, <<>>, <<<<"a">>>>)}

StepSet == FullSteps \cup OddSteps

ManifestAbsent == [exists |-> FALSE, pipeline |-> <<>>]
Manifest(pipeline) == [exists |-> TRUE, pipeline |-> pipeline]
Manifests == {ManifestAbsent} \cup {Manifest(p) : p \in SeqsUpTo(StepSet, MaxSteps)}

\* manifests of one step with one output pattern
PatChars == {"a", ".", "*", "?"}
NameChars == {"a", "b", "."}
PatternManifests ==
    {Manifest(<<StepObject(AllKeys, <<"A">>, CmdF, <<>>, <<p>>)>>) :
        p \in SeqsUpTo(PatChars, MaxPat)}

\* Python values of the log: their type and their str()
Int80 == [type |-> "int", repr |-> "80"]
Int94 == [type |-> "int", repr |-> "94"]

LogKeys == {"type", "name", "value", "filepath", "lineno"}
ValueLines ==
    {LogLine(TRUE, LogKeys, "value", n, v, o[1], o[2]) :
        n \in {<<"a">>, <<"b">>}, v \in {Int80, Int94}, o \in {<<FPy, 1>>, <<GPy, 2>>}}
MalformedLine == LogLine(FALSE, {}, "", <<>>, Int80, <<>>, 0)
OtherLine == LogLine(TRUE, LogKeys, "artifact", <<"a">>, Int80, FPy, 1)
ShortLine == LogLine(TRUE, LogKeys \ {"lineno"}, "value", <<"a">>, Int80, FPy, 0)
LogLines == ValueLines \cup {MalformedLine, OtherLine, ShortLine}

LogAbsent == [exists |-> FALSE, lines |-> <<>>]
Log(lines) == [exists |-> TRUE, lines |-> lines]
Logs == {LogAbsent} \cup {Log(l) : l \in SeqsUpTo(LogLines, MaxLog)}

\* the logs present beside a document run (which never reads them)
ResolveLogs ==
    {LogAbsent,
     Log(<<LogLine(TRUE, LogKeys, "value", <<"a">>, Int94, FPy, 1)>>),
     Log(<<LogLine(TRUE, LogKeys, "value", <<"b">>, Int80, GPy, 2),
           LogLine(TRUE, LogKeys, "value", <<"a">>, Int94, GPy, 2)>>)}

\* the manifests of the value runs
ExtractManifests ==
    {ManifestAbsent, Manifest(<<>>)}
    \cup {Manifest(<<s>>) : s \in
            {StepObject(AllKeys, <<"A">>, CmdF, <<>>, <<>>),
             StepObject(AllKeys \ {"name"}, <<>>, CmdG, <<>>, <<>>),
             StepObject(AllKeys \ {"cmd"}, <<"A">>, <<>>, <<>>, <<>>)}}
    \cup {Manifest(<<StepObject(AllKeys, <<"A">>, CmdF, <<>>, <<>>),
                     StepObject(AllKeys, <<"B">>, c, <<>>, <<>>)>>) : c \in {CmdF, CmdG}}

TexAbsent == [exists |-> FALSE, content |-> <<>>]
Tex(content) == [exists |-> TRUE, content |-> content]
ValueLink(name) == ValueLinkOpen \o name \o <<"}">>
Link(name) == LinkOpen \o name \o <<"}">>
Documents ==
    {TexAbsent, Tex(<<>>), Tex(<<"x", "=", "1">>),
     Tex(ValueLink(<<"a">>)), Tex(Link(<<"b">>)),
     Tex(<<"x">> \o Link(<<"a">>) \o <<" ">> \o ValueLink(<<"b">>)),
     Tex(ValueLink(<<"a">>) \o ValueLink(<<"b">>) \o Link(<<"a">>)),
     Tex(LinkOpen \o <<"a">> \o Link(<<"b">>)),
     Tex(LinkOpen \o <<"}">> \o Link(<<"b">>)),
     Tex(ValueLink(<<"b">>) \o ValueLinkOpen \o <<"a">>),
     Tex(DocumentClassOpen \o <<"x", "}", "\n">> \o Link(<<"a">>))}

FileAbsent == [exists |-> FALSE, content |-> <<>>]
StaleValues == [exists |-> TRUE, content |-> <<TextLine("% stale")>>]

NotCalled == [kind |-> "uncalled", step |-> None, script |-> None, dependencies |-> <<>>]

\* the invocations of extract-values.py that share a project directory
Invocations == {1, 2}
NotStarted == [pc |-> "start", config |-> <<>>, values |-> <<>>, values_content |-> <<>>]

-----------------------------------------------------------------------------
(* Initial states *)

\* no object constructed yet
InitObjects ==
    /\ pc = "start" /\ config = <<>> /\ pipeline_steps = <<>> /\ artifacts = <<>>
    /\ xpc = "start" /\ xconfig = <<>> /\ values = <<>>
    /\ mpc = "start" /\ found = NotCalled /\ matched = NotCalled
    /\ invocation = [p \in Invocations |-> NotStarted]

InitRuns ==
    /\ InitObjects
    /\ csfDir = [config_tex |-> FileAbsent, metadata_json |-> FileAbsent]
    /\ enhancedFile = FileAbsent

\* what the project directory and the extractor hold when the runs begin
Snapshot ==
    before = [values_tex |-> valuesFile, config_tex |-> csfDir.config_tex,
              metadata_json |-> csfDir.metadata_json, enhanced |-> enhancedFile,
              values |-> values]

\* a matcher call: one pattern against any name, or a manifest of steps
\* against a short name
InitMatch ==
    /\ InitRuns
    /\ logFile = LogAbsent /\ texFile = TexAbsent /\ valuesFile = FileAbsent
    /\ \/ /\ manifestFile \in PatternManifests
          /\ candidate \in SeqsUpTo(NameChars, MaxName)
          /\ scriptFiles = {FPy, GPy}
       \/ /\ manifestFile \in Manifests
          /\ candidate \in {<<"a">>, <<"b">>}
          /\ scriptFiles \in {{}, {FPy, GPy}}
    /\ Snapshot

\* a matcher call on a manifest whose outputs hold structured entries or a
\* pattern that does not compile
EntryA == StructuredOutput(<<"a">>, "7", "correlation")
ScanSteps ==
    {StepObject(AllKeys, <<"A">>, CmdF, <<FPy>>, <<EntryA>>),
     StepObject(AllKeys, <<"A">>, CmdF, <<FPy>>, <<<<"a">>, EntryA>>),
     StepObject(AllKeys, <<"B">>, CmdG, <<>>, <<<<"[">>>>),
     StepObject(AllKeys, <<"B">>, CmdG, <<>>, <<<<"a">>, <<"a", "[">>>>),
     StepObject(AllKeys, <<"A">>, CmdF, <<FPy>>, <<<<"a">>>>),
     StepObject(AllKeys, <<"B">>, CmdG, <<>>, <<<<"*">>>>)}

InitScan ==
    /\ InitRuns
    /\ logFile = LogAbsent /\ texFile = TexAbsent /\ valuesFile = FileAbsent
    /\ manifestFile \in {Manifest(p) : p \in SeqsUpTo(ScanSteps, MaxSteps)}
    /\ candidate \in {<<"a">>, <<"b">>}
    /\ scriptFiles = {FPy, GPy}
    /\ Snapshot

\* a run of process-metadata.py on a document
InitResolve ==
    /\ InitRuns
    /\ manifestFile \in Manifests
    /\ texFile \in Documents
    /\ logFile \in ResolveLogs
    /\ valuesFile = FileAbsent /\ candidate = <<>> /\ scriptFiles = {FPy, GPy}
    /\ Snapshot

\* a run of extract-values.py
InitExtract ==
    /\ InitRuns
    /\ manifestFile \in ExtractManifests
    /\ logFile \in Logs
    /\ valuesFile \in {FileAbsent, StaleValues}
    /\ texFile = TexAbsent /\ candidate = <<>> /\ scriptFiles = {FPy, GPy}
    /\ Snapshot

\* both scripts run on one project, as a build of the document runs them
BuildSteps ==
    {StepObject(AllKeys, <<"A">>, CmdF, <<FPy>>, <<<<"*">>>>),
     StepObject(AllKeys, <<"B">>, CmdG, <<>>, <<<<"a">>>>),
     StepObject(AllKeys, <<"A">>, CmdG, <<>>, <<<<"r">>>>),
     StepObject(AllKeys \ {"name"}, <<>>, CmdG, <<>>, <<<<"*">>>>),
     StepObject(AllKeys, <<>>, CmdF, <<>>, <<<<"a">>>>)}

InitBuild ==
    /\ InitRuns
    /\ manifestFile \in {Manifest(p) : p \in SeqsUpTo(BuildSteps, MaxSteps)}
    /\ texFile \in {Tex(ValueLink(<<"a">>)),
                    Tex(<<"x">> \o Link(<<"a">>) \o <<" ">> \o ValueLink(<<"b">>))}
    /\ logFile \in ResolveLogs
    /\ valuesFile = FileAbsent /\ candidate = <<>> /\ scriptFiles = {FPy, GPy}
    /\ Snapshot

\* both scripts on a project that may lack its manifest or its document, or
\* hold a log with a line that does not parse or lacks a key, beside output
\* files of an earlier build
StaleConfig == [exists |-> TRUE, content |-> <<"stale">>]
StaleMetadata ==
    [exists |-> TRUE,
     content |-> <<[name |-> <<"stale">>, cmd |-> <<>>, inputs |-> <<>>, outputs |-> <<>>]>>]
StaleEnhanced == [exists |-> TRUE, content |-> <<"%">>]
FatalLogs ==
    {LogAbsent,
     Log(<<LogLine(TRUE, LogKeys, "value", <<"a">>, Int94, GPy, 2)>>),
     Log(<<LogLine(TRUE, LogKeys, "value", <<"a">>, Int94, GPy, 2), MalformedLine>>),
     Log(<<LogLine(TRUE, LogKeys, "value", <<"a">>, Int94, GPy, 2), ShortLine>>)}

InitFatal ==
    /\ InitObjects
    /\ manifestFile \in {ManifestAbsent}
                          \cup {Manifest(p) : p \in SeqsUpTo(BuildSteps, MaxSteps)}
    /\ texFile \in {TexAbsent, Tex(ValueLink(<<"a">>))}
    /\ logFile \in FatalLogs
    /\ \/ /\ valuesFile = FileAbsent /\ enhancedFile = FileAbsent
          /\ csfDir = [config_tex |-> FileAbsent, metadata_json |-> FileAbsent]
       \/ /\ valuesFile = StaleValues /\ enhancedFile = StaleEnhanced
          /\ csfDir = [config_tex |-> StaleConfig, metadata_json |-> StaleMetadata]
    /\ candidate = <<>> /\ scriptFiles = {FPy, GPy}
    /\ Snapshot

\* extract-values.py run once and then again on the same log and manifest
InitRerun ==
    /\ InitRuns
    /\ manifestFile \in {Manifest(<<>>),
                         Manifest(<<StepObject(AllKeys, <<"A">>, CmdF, <<>>, <<>>)>>),
                         Manifest(<<StepObject(AllKeys, <<"A">>, CmdF, <<>>, <<>>),
                                    StepObject(AllKeys, <<"B">>, CmdG, <<>>, <<>>)>>)}
    /\ logFile \in Logs
    /\ valuesFile = FileAbsent
    /\ texFile = TexAbsent /\ candidate = <<>> /\ scriptFiles = {FPy, GPy}
    /\ Snapshot

\* two invocations of extract-values.py at once on the same project
InitConcurrent ==
    /\ InitRuns
    /\ manifestFile \in ExtractManifests
    /\ logFile \in ResolveLogs
    /\ valuesFile \in {FileAbsent, StaleValues}
    /\ texFile = TexAbsent /\ candidate = <<>> /\ scriptFiles = {FPy, GPy}
    /\ Snapshot

-----------------------------------------------------------------------------
(* MetadataProcessor *)

files == <<manifestFile, logFile, texFile, scriptFiles, before>>
xvars == <<xpc, xconfig, values, valuesFile, invocation>>
outs == <<csfDir, enhancedFile>>
mvars == <<mpc, candidate, found, matched>>

\* MetadataProcessor(project_root, config_file)
Construct ==
    /\ pc = "start"
    /\ LET r == LoadConfig(manifestFile)
       IN  /\ pc' = IF r.raised THEN "error" ELSE "loaded"
           /\ config' = r.config
           /\ pipeline_steps' = r.steps
    /\ UNCHANGED <<files, xvars, mvars, outs, artifacts>>

\* processor._find_metadata_for_artifact(candidate, ...)
CallFindMetadata ==
    /\ pc = "loaded" /\ mpc = "start"
    /\ found' = FindMetadataForArtifact(config, candidate)
    /\ mpc' = "found"
    /\ UNCHANGED <<files, xvars, outs, pc, config, pipeline_steps, artifacts, candidate,
                   matched>>

\* processor._match_artifact_to_step(candidate)
CallMatchArtifact ==
    /\ pc = "loaded" /\ mpc = "found"
    /\ matched' = MatchArtifactToStep(pipeline_steps, candidate, scriptFiles)
    /\ mpc' = "done"
    /\ UNCHANGED <<files, xvars, outs, pc, config, pipeline_steps, artifacts, candidate,
                   found>>

\* processor.discover_artifacts_in_latex(latex_file)
Discover ==
    /\ pc = "loaded"
    /\ LET r == DiscoverArtifactsInLatex(config, texFile)
       IN  /\ pc' = IF r.raised THEN "error" ELSE "discovered"
           /\ artifacts' = r.artifacts
    /\ UNCHANGED <<files, xvars, mvars, outs, config, pipeline_steps>>

\* process_document: self.create_csf_directory()
CreateCsfDirectory ==
    /\ pc = "discovered"
    /\ csfDir' = [config_tex |-> ConfigTex, metadata_json |-> MetadataJson(pipeline_steps)]
    /\ pc' = "configured"
    /\ UNCHANGED <<files, xvars, mvars, config, pipeline_steps, artifacts, enhancedFile>>

\* process_document: self.enhance_latex_document(latex_file, output_file)
Enhance ==
    /\ pc = "configured"
    /\ LET r == EnhanceLatexDocument(config, texFile)
       IN  /\ pc' = IF r.raised THEN "error" ELSE "done"
           /\ enhancedFile' = IF r.raised THEN enhancedFile
                              ELSE [exists |-> TRUE, content |-> r.content]
    /\ UNCHANGED <<files, xvars, mvars, config, pipeline_steps, artifacts, csfDir>>

-----------------------------------------------------------------------------
(* ValueExtractor *)

pvars == <<pc, config, pipeline_steps, artifacts, csfDir, enhancedFile>>

\* ValueExtractor(project_root, config_file)
XConstruct ==
    /\ xpc = "start"
    /\ LET r == XLoadConfig(manifestFile)
       IN  /\ xpc' = IF r.raised THEN "error" ELSE "loaded"
           /\ xconfig' = r.config
    /\ UNCHANGED <<files, pvars, mvars, values, valuesFile, invocation>>

\* process_document: values = self.extract_values_from_log()
XExtract ==
    /\ xpc = "loaded"
    /\ LET r == ExtractValuesFromLog(xconfig, logFile)
       IN  /\ xpc' = IF r.raised THEN "error" ELSE "extracted"
           /\ values' = StoreValues(values, r)
    /\ UNCHANGED <<files, pvars, mvars, xconfig, valuesFile, invocation>>

\* create_csf_values_file: open(values_file, 'w') creates or empties the file
XOpenValuesFile ==
    /\ xpc = "extracted"
    /\ valuesFile' = OpenWrite(valuesFile)
    /\ xpc' = "writing"
    /\ UNCHANGED <<files, pvars, mvars, xconfig, values, invocation>>

\* create_csf_values_file: f.write(values_content) and the close
XWriteValuesFile ==
    /\ xpc = "writing"
    /\ valuesFile' = FileWrite(valuesFile, GenerateValuesTex(values))
    /\ xpc' = "done"
    /\ UNCHANGED <<files, pvars, mvars, xconfig, values, invocation>>

-----------------------------------------------------------------------------
(* Invocations of extract-values.py: main() of each, step by step *)

others == <<files, pvars, mvars, xpc, xconfig, values>>

\* main: extractor = ValueExtractor(project_root, config_file)
RunConstruct(p) ==
    /\ invocation[p].pc = "start"
    /\ LET r == XLoadConfig(manifestFile)
       IN  invocation' = [invocation EXCEPT
               ![p].pc = IF r.raised THEN "error" ELSE "loaded",
               ![p].config = r.config]
    /\ UNCHANGED <<others, valuesFile>>

\* process_document: values = self.extract_values_from_log()
RunExtract(p) ==
    /\ invocation[p].pc = "loaded"
    /\ LET r == ExtractValuesFromLog(invocation[p].config, logFile)
       IN  invocation' = [invocation EXCEPT
               ![p].pc = IF r.raised THEN "error" ELSE "extracted",
               ![p].values = StoreValues(@, r)]
    /\ UNCHANGED <<others, valuesFile>>

\* create_csf_values_file: values_content = self.generate_values_tex(),
\* then open(values_file, 'w')
RunOpenValuesFile(p) ==
    /\ invocation[p].pc = "extracted"
    /\ invocation' = [invocation EXCEPT
           ![p].pc = "writing",
           ![p].values_content = GenerateValuesTex(invocation[p].values)]
    /\ valuesFile' = OpenWrite(valuesFile)
    /\ UNCHANGED others

\* create_csf_values_file: f.write(values_content) and the close
RunWriteValuesFile(p) ==
    /\ invocation[p].pc = "writing"
    /\ valuesFile' = FileWrite(valuesFile, invocation[p].values_content)
    /\ invocation' = [invocation EXCEPT ![p].pc = "done"]
    /\ UNCHANGED others

RunStep(p) ==
    RunConstruct(p) \/ RunExtract(p) \/ RunOpenValuesFile(p) \/ RunWriteValuesFile(p)

\* an invocation is over when its process has exited
Exited(p) == invocation[p].pc \in {"done", "error"}

-----------------------------------------------------------------------------
(* Specifications *)

NextMatch == Construct \/ CallFindMetadata \/ CallMatchArtifact
SpecMatch == InitMatch /\ [][NextMatch]_vars

\* the matchers on outputs that are not all plain patterns
SpecScan == InitScan /\ [][NextMatch]_vars

NextResolve == Construct \/ Discover \/ CreateCsfDirectory \/ Enhance
SpecResolve == InitResolve /\ [][NextResolve]_vars

NextExtract == XConstruct \/ XExtract \/ XOpenValuesFile \/ XWriteValuesFile
SpecExtract == InitExtract /\ [][NextExtract]_vars

\* process-metadata.py and extract-values.py on the same project, in any order
NextBuild == NextResolve \/ NextExtract
SpecBuild == InitBuild /\ [][NextBuild]_vars

\* the two scripts on a project with missing or corrupt inputs
SpecFatal == InitFatal /\ [][NextBuild]_vars

\* one invocation after the other: the second starts when the first has exited
NextRerun ==
    \E p \in Invocations :
        /\ \A q \in Invocations : q < p => Exited(q)
        /\ RunStep(p)
SpecRerun == InitRerun /\ [][NextRerun]_vars

\* the invocations interleave freely
NextConcurrent == \E p \in Invocations : RunStep(p)
SpecConcurrent == InitConcurrent /\ [][NextConcurrent]_vars

-----------------------------------------------------------------------------
(* Properties of the matchers (SpecMatch) *)

\* anchored glob semantics: "*" is any run of characters, "?" exactly one
\* character, every other character itself, and the whole name is consumed
RECURSIVE GlobMatch(_, _)
GlobMatch(p, s) ==
    IF p = <<>> THEN s = <<>>
    ELSE IF Head(p) = "*"
         THEN GlobMatch(Tail(p), s) \/ (s # <<>> /\ GlobMatch(p, Tail(s)))
         ELSE IF Head(p) = "?"
              THEN s # <<>> /\ GlobMatch(Tail(p), Tail(s))
              ELSE s # <<>> /\ Head(s) = Head(p) /\ GlobMatch(Tail(p), Tail(s))

\* C1: against a step whose only output pattern is P, a name matches if and
\* only if the whole name satisfies P under anchored glob semantics.
C1_AnchoredGlob ==
    (mpc # "start" /\ Len(config) = 1 /\ Len(Get(config[1], "outputs", <<>>)) = 1)
        => ((found.kind = "meta") <=> GlobMatch(config[1].outputs[1], candidate))

\* the steps of the manifest, by position, that declare a pattern matching name
MatchingSteps(pipeline, name) ==
    {i \in 1..Len(pipeline) :
        \E k \in 1..Len(Get(pipeline[i], "outputs", <<>>)) :
            PatternOutcome(pipeline[i].outputs[k], name) = "match"}

FirstDeclared(pipeline, name) ==
    CHOOSE i \in MatchingSteps(pipeline, name) :
        \A j \in MatchingSteps(pipeline, name) : i <= j

\* C2: when several steps declare output patterns that match the candidate,
\* each matcher returns the step declared first in the manifest.
C2_FirstDeclaredWins ==
    (mpc = "done" /\ Cardinality(MatchingSteps(manifestFile.pipeline, candidate)) >= 2)
        => LET first == manifestFile.pipeline[FirstDeclared(manifestFile.pipeline, candidate)]
           IN  /\ found.kind = "meta"
               /\ found.step = first.name
               /\ found.dependencies = Get(first, "inputs", <<>>)
               /\ matched.kind = "meta"
               /\ matched.step = first.name
               /\ matched.dependencies = Get(first, "inputs", <<>>)

-----------------------------------------------------------------------------
(* Properties of manifest loading *)

LacksRequiredKey(pipeline) ==
    \E i \in 1..Len(pipeline) : ~({"name", "cmd"} \subseteq pipeline[i].keys)

\* C8: a manifest in which a step lacks "name" or "cmd" is loaded by no
\* loader: neither constructor gets past the load and no configuration is kept.
C8_MalformedManifestRejected ==
    (manifestFile.exists /\ LacksRequiredKey(manifestFile.pipeline))
        => /\ pc \in {"start", "error"} /\ config = <<>> /\ pipeline_steps = <<>>
           /\ xpc \in {"start", "error"} /\ xconfig = <<>>

\* C9: a loaded manifest has non-empty, pairwise distinct step names.
C9_UniqueStepNames ==
    (pc \in {"loaded", "discovered"})
        => /\ \A i \in 1..Len(config) : config[i].name # <<>>
           /\ \A i, j \in 1..Len(config) : config[i].name = config[j].name => i = j

-----------------------------------------------------------------------------
(* Properties of document resolution (SpecResolve) *)

ValueMarkers == FindIter(texFile.content, 1, ValueLinkOpen)
LinkMarkers == FindIter(texFile.content, 1, LinkOpen)

HasEntry(artifact_type, m) ==
    \E k \in 1..Len(artifacts) :
        /\ artifacts[k].type = artifact_type
        /\ artifacts[k].name = m.name
        /\ artifacts[k].match_start = m.match_start
        /\ (MatchingSteps(config, m.name) = {} => artifacts[k].metadata.step = Unknown)

\* C4: resolving never raises for an unmatched marker and the result has
\* exactly one entry per marker of the document; the entry of a marker that
\* matches no step has step_name 'unknown'.
C4_OneEntryPerMarker ==
    (pc \in {"discovered", "error"} /\ texFile.exists /\ manifestFile.exists
        /\ ~LacksRequiredKey(manifestFile.pipeline))
        => /\ pc = "discovered"
           /\ Len(artifacts) = Len(ValueMarkers) + Len(LinkMarkers)
           /\ \A i \in 1..Len(ValueMarkers) : HasEntry("value", ValueMarkers[i])
           /\ \A i \in 1..Len(LinkMarkers) : HasEntry("artifact", LinkMarkers[i])

\* the last value record of the log for a name: its position, 0 if none
IsValueRecord(line, name) ==
    /\ line.parses /\ LogKeys \subseteq line.keys
    /\ line.type = "value" /\ line.name = name

LastRecord(lines, name) ==
    IF \E i \in 1..Len(lines) : IsValueRecord(lines[i], name)
    THEN CHOOSE i \in 1..Len(lines) :
            /\ IsValueRecord(lines[i], name)
            /\ \A j \in (i + 1)..Len(lines) : ~IsValueRecord(lines[j], name)
    ELSE 0

\* the steps, by position, whose command contains the path
StepsRunning(pipeline, path) ==
    {i \in 1..Len(pipeline) : Contains(Get(pipeline[i], "cmd", <<>>), path)}

\* C5: a value-link marker whose name has a value record in the log resolves
\* to the step whose command contains the record's filepath, with the script
\* path and line number of that record.
C5_ValueLinkFromLog ==
    (pc = "discovered")
        => \A i \in 1..Len(ValueMarkers) :
              LET m == ValueMarkers[i]
                  r == LastRecord(logFile.lines, m.name)
              IN  (r # 0 /\ StepsRunning(config, logFile.lines[r].filepath) # {})
                    => LET rec == logFile.lines[r]
                           step == config[CHOOSE s \in StepsRunning(config, rec.filepath) :
                                        \A t \in StepsRunning(config, rec.filepath) : s <= t]
                       IN  \E k \in 1..Len(artifacts) :
                              /\ artifacts[k].type = "value"
                              /\ artifacts[k].name = m.name
                              /\ artifacts[k].metadata.step = step.name
                              /\ artifacts[k].metadata.script = rec.filepath
                              /\ InfoLine(artifacts[k].metadata) = rec.lineno

-----------------------------------------------------------------------------
(* Properties of value extraction (SpecExtract) *)

Reduced == xpc \in {"extracted", "writing", "done"}

\* C3: after the reduction, the value of every name with a value record
\* carries the value, script path and line number of the last such record.
C3_LastWriteWins ==
    Reduced
        => /\ \A j, k \in 1..Len(values) : values[j].name = values[k].name => j = k
           /\ \A i \in 1..Len(logFile.lines) :
                 LET rec == logFile.lines[i]
                 IN  (rec.type = "value" /\ LastRecord(logFile.lines, rec.name) = i)
                        => \E k \in 1..Len(values) :
                              /\ values[k].name = rec.name
                              /\ values[k].value = rec.value
                              /\ values[k].script = rec.filepath
                              /\ values[k].line = rec.lineno

C3_Witness ==
    /\ xpc = "extracted"
    /\ \E i, j \in 1..Len(logFile.lines) :
          /\ i < j
          /\ logFile.lines[i].type = "value" /\ logFile.lines[j].type = "value"
          /\ logFile.lines[i].name = logFile.lines[j].name
          /\ logFile.lines[i].value # logFile.lines[j].value
          /\ logFile.lines[i].filepath # logFile.lines[j].filepath

NoValuesText == <<TextLine("% No values extracted"), TextLine("")>>

\* C6: with no log file the read does not fail and gives no records, the run
\* goes on to write the table, and the table written is the "no values" line.
C6_MissingLog ==
    (~logFile.exists)
        => /\ xpc = "error" => ~manifestFile.exists
           /\ Reduced => values = <<>>
           /\ xpc \in {"loaded", "extracted", "writing"} => ENABLED NextExtract
           /\ xpc = "done" => valuesFile.exists /\ valuesFile.content = NoValuesText

C6_Witness == ~logFile.exists /\ xpc = "done" /\ valuesFile.content = NoValuesText

HasMalformedLine ==
    logFile.exists /\ \E i \in 1..Len(logFile.lines) : ~logFile.lines[i].parses

\* C7: if any line of the log fails to parse, the run stops with an error at
\* the read: the reduction is never reached and no values are stored.
C7_MalformedLineFatal ==
    HasMalformedLine
        => /\ xpc \in {"start", "loaded", "error"}
           /\ xpc = "loaded" => ENABLED XExtract
           /\ values = <<>>

C7_Witness ==
    /\ xpc = "error" /\ manifestFile.exists
    /\ Len(logFile.lines) = 3
    /\ logFile.lines[1].type = "value" /\ logFile.lines[1].parses
    /\ ~logFile.lines[2].parses
    /\ logFile.lines[3].type = "value" /\ logFile.lines[3].parses

\* the names of the value records, each once, in order of first appearance
RECURSIVE NamesInLogOrder(_, _, _)
NamesInLogOrder(lines, i, acc) ==
    IF i > Len(lines) THEN acc
    ELSE IF lines[i].type = "value" /\ \A k \in 1..Len(acc) : acc[k] # lines[i].name
         THEN NamesInLogOrder(lines, i + 1, Append(acc, lines[i].name))
         ELSE NamesInLogOrder(lines, i + 1, acc)

TrailingLines ==
    <<TextLine(""), TextLine("% Mark values as cached"),
      TextLine("\\csfvaluescachedtrue"), TextLine("")>>

\* C10: for a non-empty mapping the table holds one definition line per
\* extracted name, with that name's value, step and type, in the order the
\* names first appear in the log, followed by the line marking the cache.
C10_DefinitionLines ==
    (xpc = "done" /\ values # <<>>)
        => LET content == valuesFile.content
               isDef(l) == l.kind = "csfdefinevalue"
               defs == SelectSeq(content, isDef)
               names == NamesInLogOrder(logFile.lines, 1, <<>>)
               n == Len(content)
           IN  /\ Len(defs) = Len(names)
               /\ \A i \in 1..Len(defs) :
                     /\ defs[i].name = names[i]
                     /\ defs[i].name = values[i].name
                     /\ defs[i].value = values[i].value.repr
                     /\ defs[i].step = values[i].step
                     /\ defs[i].value_type = values[i].value_type
               /\ n >= Len(defs) + 4
               /\ SubSeq(content, n - 3, n) = TrailingLines
               /\ SubSeq(content, n - 3 - Len(defs), n - 4) = defs

C10_Witness ==
    /\ xpc = "done" /\ Len(values) = 2 /\ Len(logFile.lines) = 3
    /\ \A i \in 1..3 : logFile.lines[i].type = "value"
    /\ logFile.lines[1].name = logFile.lines[3].name
    /\ logFile.lines[1].name # logFile.lines[2].name
    /\ logFile.lines[1].value # logFile.lines[3].value

-----------------------------------------------------------------------------
(* Properties of repeated and concurrent invocations *)

\* C11: extraction and table generation run twice on an unchanged log and
\* manifest generate the same table text both times, and the second run
\* leaves the values file with the content the first run left in it.
C11_Idempotent ==
    LET first == invocation[1]
        second == invocation[2]
    IN  /\ (first.pc = "done" /\ second.pc \in {"start", "loaded", "extracted"})
            => valuesFile = [exists |-> TRUE, content |-> first.values_content]
        /\ (first.pc = "done" /\ second.pc = "done")
            => /\ second.values_content = first.values_content
               /\ valuesFile = [exists |-> TRUE, content |-> first.values_content]

C11_Witness ==
    /\ invocation[1].pc = "done" /\ invocation[2].pc = "done"
    /\ Len(invocation[2].values) >= 2

\* a table is whole when it is the text the file held before the invocations
\* or the text one of the invocations generated
WholeTable(content) ==
    \/ content = StaleValues.content
    \/ \E p \in Invocations :
          /\ invocation[p].pc \in {"writing", "done"}
          /\ content = invocation[p].values_content

\* C12: with invocations running at once on one project the values file is
\* replaced atomically: whenever it exists it holds a whole table, never an
\* emptied or partly written one.
C12_AtomicWrites ==
    valuesFile.exists => WholeTable(valuesFile.content)

-----------------------------------------------------------------------------
(* Properties of the annotations of a document *)

\* C13: the annotations parsing returns are in document order, a smaller
\* start offset first, also when value links and artifact links alternate.
C13_DocumentOrder ==
    pc = "discovered"
        => \A i, j \in 1..Len(artifacts) :
               i < j => artifacts[i].match_start < artifacts[j].match_start

-----------------------------------------------------------------------------
(* Properties of the extracted values (SpecExtract) *)

\* the steps of the manifest, by position, whose command contains the path
StepsContaining(pipeline, script_path) ==
    {i \in 1..Len(pipeline) : Contains(Get(pipeline[i], "cmd", <<>>), script_path)}

\* C14: the step of every extracted value is the name of the first step, in
\* manifest order, whose command contains the script path of its record, and
\* it is 'unknown' exactly when no step's command contains that path.
C14_FirstStepRunningScript ==
    Reduced =>
        \A k \in 1..Len(values) :
            LET running == StepsContaining(xconfig, values[k].script)
                first == CHOOSE i \in running : \A j \in running : i <= j
            IN  /\ (values[k].step = Unknown) <=> (running = {})
                /\ running # {} =>
                      /\ "name" \in xconfig[first].keys
                      /\ values[k].step = xconfig[first].name

\* C15: an extracted value whose record declares no type has value_type
\* 'value', and 'value' is the type written in its definition line.
C15_DefaultValueType ==
    /\ Reduced => \A k \in 1..Len(values) : values[k].value_type = "value"
    /\ xpc = "done" =>
          \A i \in 1..Len(valuesFile.content) :
              valuesFile.content[i].kind = "csfdefinevalue"
                  => valuesFile.content[i].value_type = "value"

-----------------------------------------------------------------------------
(* Properties of the step names in the results (SpecBuild) *)

\* the names the steps of the manifest carry
StepNames(pipeline) ==
    {pipeline[i].name : i \in {j \in 1..Len(pipeline) : "name" \in pipeline[j].keys}}

\* C16: every resolved reference and every extracted value whose step is not
\* 'unknown' names a step of the manifest that was loaded.
C16_StepsExist ==
    /\ \A i \in 1..Len(artifacts) :
          artifacts[i].metadata.step # Unknown
              => artifacts[i].metadata.step \in StepNames(manifestFile.pipeline)
    /\ \A k \in 1..Len(values) :
          values[k].step # Unknown => values[k].step \in StepNames(manifestFile.pipeline)

C16_Witness ==
    /\ \E i \in 1..Len(artifacts) : artifacts[i].metadata.step = <<"A">>
    /\ \E k \in 1..Len(values) : values[k].step = <<"B">>

-----------------------------------------------------------------------------
(* Properties of the matchers on structured entries and bad patterns (SpecScan) *)

\* the steps, by position, that declare a structured entry with this name
StepsDeclaring(pipeline, name) ==
    {i \in 1..Len(pipeline) :
        \E k \in 1..Len(pipeline[i].outputs) :
            IsStructured(pipeline[i].outputs[k]) /\ EntryName(pipeline[i].outputs[k]) = name}

HasStructured(pipeline) ==
    \E i \in 1..Len(pipeline) : \E k \in 1..Len(pipeline[i].outputs) :
        IsStructured(pipeline[i].outputs[k])

\* the manifest with the structured entries taken out of every outputs
PatternsOnly(pipeline) ==
    LET plain(entry) == ~IsStructured(entry)
    IN  [i \in 1..Len(pipeline) |->
            [pipeline[i] EXCEPT !.outputs = SelectSeq(@, plain)]]

\* C17: a name that a structured output entry of some step declares resolves
\* to that step with the entry's line and declared type; glob matching on
\* the patterns decides only when no structured entry has the name; and
\* structured entries in outputs never make resolution fail.
C17_StructuredEntryResolves ==
    (mpc # "start" /\ HasStructured(config)) =>
        /\ found.kind # "raise"
        /\ \A i \in StepsDeclaring(config, candidate) :
              \E k \in 1..Len(config[i].outputs) :
                  /\ IsStructured(config[i].outputs[k])
                  /\ EntryName(config[i].outputs[k]) = candidate
                  /\ found.kind = "meta"
                  /\ found.step \in {config[j].name : j \in StepsDeclaring(config, candidate)}
                  /\ {"line", "type"} \subseteq DOMAIN found
                  /\ found.line = EntryLine(config[i].outputs[k])
                  /\ found.type = EntryType(config[i].outputs[k])
        /\ StepsDeclaring(config, candidate) = {}
              => found = FindMetadataForArtifact(PatternsOnly(config), candidate)

\* a pattern whose translation re cannot compile
BadPattern(entry) == ~IsStructured(entry) /\ ~Compiles(GlobToRegex(entry))

HasBadPattern(pipeline) ==
    \E i \in 1..Len(pipeline) : \E k \in 1..Len(pipeline[i].outputs) :
        BadPattern(pipeline[i].outputs[k])

GoodPatternsOnly(pipeline) ==
    LET good(entry) == ~BadPattern(entry)
    IN  [i \in 1..Len(pipeline) |->
            [pipeline[i] EXCEPT !.outputs = SelectSeq(@, good)]]

\* C18: a pattern with a syntax error that the load accepted never makes a
\* matcher raise: it matches no name, and the patterns and steps after it
\* are tried as if it were not there.
C18_BadPatternNeverMatches ==
    (mpc = "done" /\ HasBadPattern(config) /\ ~HasStructured(config)) =>
        /\ found.kind # "raise"
        /\ matched.kind # "raise"
        /\ found = FindMetadataForArtifact(GoodPatternsOnly(config), candidate)
        /\ matched = MatchArtifactToStep(GoodPatternsOnly(pipeline_steps), candidate,
                                         scriptFiles)

-----------------------------------------------------------------------------
(* Properties of malformed markers (SpecResolve) *)

OpenerAt(content, i) ==
    StartsWithAt(content, i, ValueLinkOpen) \/ StartsWithAt(content, i, LinkOpen)

\* a marker that begins at position i and is well formed: its brace closes,
\* before any other marker begins, around a name that is not empty
WellFormedAt(content, i, open) ==
    /\ StartsWithAt(content, i, open)
    /\ LET j == i + Len(open)
           k == NameEnd(content, j)
       IN  /\ k <= Len(content)
           /\ k > j
           /\ \A m \in j..(k - 1) : ~OpenerAt(content, m)

MalformedAt(content, i) ==
    \E open \in {ValueLinkOpen, LinkOpen} :
        StartsWithAt(content, i, open) /\ ~WellFormedAt(content, i, open)

OpenOf(artifact_type) == IF artifact_type = "value" THEN ValueLinkOpen ELSE LinkOpen

\* C19: a malformed marker (a brace that does not close before the next
\* marker begins, or an empty name) is skipped: it gives no annotation, no
\* annotation's name holds the text or the markers after it, and every
\* well-formed marker after it that resolves is returned with its own name.
C19_MalformedMarkerSkipped ==
    LET content == texFile.content
    IN  (pc = "discovered" /\ \E i \in 1..Len(content) : MalformedAt(content, i)) =>
            /\ \A e \in 1..Len(artifacts) :
                  /\ WellFormedAt(content, artifacts[e].match_start + 1,
                                  OpenOf(artifacts[e].type))
                  /\ \A m \in 1..Len(artifacts[e].name) :
                        ~OpenerAt(artifacts[e].name, m)
            /\ \A i \in 1..Len(content) : \A t \in {"value", "artifact"} :
                  (/\ WellFormedAt(content, i, OpenOf(t))
                   /\ \E b \in 1..(i - 1) : MalformedAt(content, b)
                   /\ FindMetadataForArtifact(config, MatchAt(content, i, OpenOf(t)).name).kind
                          = "meta")
                      => \E e \in 1..Len(artifacts) :
                             /\ artifacts[e].type = t
                             /\ artifacts[e].match_start = i - 1
                             /\ artifacts[e].name = MatchAt(content, i, OpenOf(t)).name

-----------------------------------------------------------------------------
(* Properties of the enhanced document (SpecResolve) *)

\* the comments enhance_latex_document builds for the discovered markers
Comments == {MetadataComment(artifacts[i]) : i \in 1..Len(artifacts)}

\* the whole marker of an annotation, as the document spells it
MarkerText(artifact) == OpenOf(artifact.type) \o artifact.name \o <<"}">>

\* the enhanced text without the inserted comments
Uncommented(text) ==
    LET kept(x) == x \notin Comments IN SelectSeq(text, kept)

\* C20: in the enhanced document every inserted '% CSF-AUTO-METADATA'
\* comment stands immediately before the first character of the marker whose
\* name it carries, and the text without the inserted comments is the
\* original text, the added \usepackage{composable} line aside.
C20_CommentsBeforeMarkers ==
    pc = "done" =>
        LET out == enhancedFile.content
            original == texFile.content
        IN  /\ \A p \in 1..Len(out) :
                  out[p] \in Comments
                      => \E i \in 1..Len(artifacts) :
                             /\ out[p] = MetadataComment(artifacts[i])
                             /\ StartsWithAt(out, p + 1, MarkerText(artifacts[i]))
            /\ \/ Uncommented(out) = original
               \/ \E k \in 1..Len(original) :
                      Uncommented(out)
                          = SubSeq(original, 1, k) \o <<"\n">> \o UsePackage
                                \o SubSeq(original, k + 1, Len(original))

-----------------------------------------------------------------------------
(* Properties of the runs that end in a fatal error (SpecFatal) *)

OutputsAsBefore ==
    /\ valuesFile = before.values_tex
    /\ csfDir.config_tex = before.config_tex
    /\ csfDir.metadata_json = before.metadata_json
    /\ enhancedFile = before.enhanced

\* C21: a run that ends in a fatal error (no manifest or a malformed one, no
\* document, a corrupt log line) has created or overwritten none of the
\* output files, and the extractor's stored values are as before the run.
C21_FatalRunWritesNothing ==
    /\ pc = "error"
          => /\ csfDir.config_tex = before.config_tex
             /\ csfDir.metadata_json = before.metadata_json
             /\ enhancedFile = before.enhanced
    /\ xpc = "error" => (valuesFile = before.values_tex /\ values = before.values)
    /\ (pc = "error" /\ xpc \in {"start", "loaded", "error"}) => OutputsAsBefore
    /\ (xpc = "error" /\ pc \in {"start", "loaded", "error"}) => OutputsAsBefore

\* no document for the one script, a log whose second line lacks a key for
\* the other, beside the files of an earlier build
C21_Witness ==
    /\ pc = "error" /\ manifestFile.exists /\ ~texFile.exists
    /\ xpc = "error" /\ logFile.exists /\ Len(logFile.lines) = 2
    /\ logFile.lines[2] = ShortLine
    /\ before.values_tex = StaleValues /\ before.enhanced = StaleEnhanced

====
